---- MODULE Spec2Model ----
(***************************************************************************)
(* Session lifecycle manager and message pipeline of datalab's node server *)
(* (sources/server/src/node/app/sessions/manager.ts, class SessionManager) *)
(* together with the default-document construction of the older            *)
(* MessagePipeline class.                                                  *)
(*                                                                         *)
(* Node runs every event handler to completion, so each handler is one     *)
(* atomic action; "concurrent" events are handler runs in either order.    *)
(* Objects live in heaps (sequences); a reference is an index into a heap. *)
(***************************************************************************)
EXTENDS Integers, Sequences, FiniteSets, TLC

\* ------------------------------------------------------------------ bounds
MaxConnections == 3     \* connections the connection manager ever opens
NumPorts == 4           \* size of the port pool of the port allocator
MaxChainLen == 2        \* longest configured processor chain
MaxMessage == 2         \* messages are 0..MaxMessage (and the sentinel)
NumUuids == 3           \* identifiers the ID generator can return
MaxQueued == 2          \* messages waiting to be handed to Sessions

Keys == {"abc", "xyz"}  \* session keys connections may carry
Ports == 1..NumPorts
Null == -1              \* JavaScript null: the "filtered" sentinel
NoRef == 0              \* no object (heap references start at 1)

VARIABLES
  messageProcessors,  \* SessionManager._messageProcessors
  idToSession,        \* SessionManager._idToSession: key -> session reference
  sessions,           \* heap of Session objects
  kernels,            \* kernels the kernel manager has created
  notebooks,          \* heap of ActiveNotebook objects
  allocated,          \* ports the port allocator has handed out
  connections,        \* connections the connection manager has opened
  last,               \* observation of the most recent handler run
  document,           \* MessagePipeline: the notebook under default construction
  inbound,            \* messages that arrived for a Session, per source
  pipeline            \* a MessagePipeline driven by the same events

vars == <<messageProcessors, idToSession, sessions, kernels, notebooks,
          allocated, connections, last, document, inbound, pipeline>>

\* --------------------------------------------------------------- constants
temp_notebook_path == "temp-notebook"

\* ------------------------------------------------------------------ helpers
\* obj[key] of a JavaScript object used as a map: undefined reads as NoRef.
Lookup(map, key) == IF key \in DOMAIN map THEN map[key] ELSE NoRef

\* obj[key] = value
Store(map, key, value) ==
  [x \in DOMAIN map \cup {key} |-> IF x = key THEN value ELSE map[x]]

\* connection.getSessionId()
getSessionId(connection) == connections[connection].key

NoObservation ==
  [op |-> "none", key |-> "", conn |-> NoRef, session |-> NoRef,
   branch |-> "none", outcome |-> "ok", raised |-> FALSE, ports |-> <<>>,
   message |-> Null, invoked |-> <<>>, returned |-> <<>>, delivered |-> <<>>,
   target |-> NoRef]

\* ------------------------------------------------- external collaborators
\* utils.getAvailablePort(): the port the allocator returns next, given the
\* ports still allocated: one that is not allocated. The session manager
\* only passes ports on (it never compares or computes with them), so every
\* choice of a free port gives the same behaviour up to a renaming of the
\* ports; the lowest free port stands for all of them. NoRef stands for the
\* call raising an error because no port is available.
getAvailablePort(alloc) ==
  IF Ports \ alloc = {} THEN NoRef
  ELSE CHOOSE p \in Ports \ alloc : \A q \in Ports \ alloc : p <= q

\* Session.updateUserConnection(connection): replaces the connection
\* reference of the Session object and nothing else.
updateUserConnection(heap, session, connection) ==
  [heap EXCEPT ![session].userconn = connection]

\* The callback a Session hands to _handleMessage delivers through the
\* connection the Session refers to when the callback runs.
DeliveryTarget(session) == session.userconn

\* What a handler run leaves behind: the new values of the state it may
\* touch, and whether an error left the handler.
Effect(reg, sess, kern, nbs, alloc, raised, outcome, branch, ports) ==
  [idToSession |-> reg, sessions |-> sess, kernels |-> kern,
   notebooks |-> nbs, allocated |-> alloc, raised |-> raised,
   outcome |-> outcome, branch |-> branch, ports |-> ports]

\* ---------------------------------------------------------- SessionManager
\* _createSession(sessionId, connection). iopubPort and shellPort are what
\* the two getAvailablePort() calls return (iopubPort is evaluated first);
\* fault says which collaborator, if any, raises: "kernel" is
\* _kernelManager.create, "notebook" is the ActiveNotebook constructor.
\* Nothing is caught, so an error leaves everything done so far in place.
\* The result is the effect on the heaps; .session is the new Session
\* reference (NoRef when an error was raised). A kernel record carries,
\* besides its two ports, the key whose connect event asked for it (owner:
\* bookkeeping of the model, the code keeps no such field).
\* Lines 62-65: the options object handed to _kernelManager.create.
KernelOptionsShared(iopubPort, shellPort) ==
  [iopubPort |-> iopubPort, shellPort |-> iopubPort]

KernelOptions(iopubPort, shellPort) ==
  [iopubPort |-> iopubPort, shellPort |-> shellPort]

CreateSession(sessionId, connection, iopubPort, shellPort, fault) ==
  LET options == KernelOptions(iopubPort, shellPort)
      kernel == [iopubPort |-> options.iopubPort,
                 shellPort |-> options.shellPort, owner |-> sessionId]
      notebook == [path |-> temp_notebook_path]
      session == [id |-> sessionId, userconn |-> connection,
                  kernel |-> Len(kernels) + 1, notebook |-> Len(notebooks) + 1]
      unchanged == [raised |-> TRUE, outcome |-> "portFail", session |-> NoRef,
                    sessions |-> sessions, kernels |-> kernels,
                    notebooks |-> notebooks, allocated |-> allocated,
                    ports |-> <<>>]
  IN IF iopubPort = NoRef
     THEN unchanged
     ELSE IF shellPort = NoRef
     THEN [unchanged EXCEPT !.allocated = allocated \cup {iopubPort},
                            !.ports = <<iopubPort>>]
     ELSE IF fault = "kernel"
     THEN [unchanged EXCEPT !.outcome = "kernelFail",
                            !.allocated = allocated \cup {iopubPort, shellPort},
                            !.ports = <<iopubPort, shellPort>>]
     ELSE IF fault = "notebook"
     THEN [unchanged EXCEPT !.outcome = "notebookFail",
                            !.allocated = allocated \cup {iopubPort, shellPort},
                            !.ports = <<iopubPort, shellPort>>,
                            !.kernels = Append(kernels, kernel)]
     ELSE [raised |-> FALSE, outcome |-> "ok", session |-> Len(sessions) + 1,
           sessions |-> Append(sessions, session),
           kernels |-> Append(kernels, kernel),
           notebooks |-> Append(notebooks, notebook),
           allocated |-> allocated \cup {iopubPort, shellPort},
           ports |-> <<iopubPort, shellPort>>]

\* _handleUserConnect(connection), with sessionId = connection.getSessionId().
\* The registry entry is written only after _createSession has returned.
HandleUserConnectAlwaysCreate(sessionId, connection, iopubPort, shellPort, fault) ==
  LET c == CreateSession(sessionId, connection, iopubPort, shellPort, fault)
  IN Effect(IF c.raised THEN idToSession
            ELSE Store(idToSession, sessionId, c.session),
            c.sessions, c.kernels, c.notebooks, c.allocated,
            c.raised, c.outcome, "create", c.ports)

HandleUserConnectRegisterFirst(sessionId, connection, iopubPort, shellPort, fault) ==
  LET session == Lookup(idToSession, sessionId)
      c == CreateSession(sessionId, connection, iopubPort, shellPort, fault)
      partial == [id |-> sessionId, userconn |-> connection,
                  kernel |-> NoRef, notebook |-> NoRef]
  IN IF session = NoRef
     THEN Effect(Store(idToSession, sessionId, Len(sessions) + 1),
                 IF c.raised THEN Append(sessions, partial) ELSE c.sessions,
                 c.kernels, c.notebooks, c.allocated,
                 FALSE, c.outcome, "create", c.ports)
     ELSE Effect(idToSession,
                 updateUserConnection(sessions, session, connection),
                 kernels, notebooks, allocated, FALSE, "ok", "update", <<>>)

HandleUserConnectNoUpdate(sessionId, connection, iopubPort, shellPort, fault) ==
  LET session == Lookup(idToSession, sessionId)
      c == CreateSession(sessionId, connection, iopubPort, shellPort, fault)
  IN IF session = NoRef
     THEN Effect(IF c.raised THEN idToSession
                 ELSE Store(idToSession, sessionId, c.session),
                 c.sessions, c.kernels, c.notebooks, c.allocated,
                 c.raised, c.outcome, "create", c.ports)
     ELSE Effect(idToSession, sessions, kernels, notebooks, allocated,
                 FALSE, "ok", "update", <<>>)

HandleUserConnect(sessionId, connection, iopubPort, shellPort, fault) ==
  LET session == Lookup(idToSession, sessionId)
      c == CreateSession(sessionId, connection, iopubPort, shellPort, fault)
  IN IF session = NoRef
     THEN Effect(IF c.raised THEN idToSession
                 ELSE Store(idToSession, sessionId, c.session),
                 c.sessions, c.kernels, c.notebooks, c.allocated,
                 c.raised, c.outcome, "create", c.ports)
     ELSE Effect(idToSession,
                 updateUserConnection(sessions, session, connection),
                 kernels, notebooks, allocated, FALSE, "ok", "update", <<>>)

\* _handleUserDisconnect(connection): the body is a TODO comment only.
HandleUserDisconnectTearDown(sessionId, connection) ==
  Effect([k \in DOMAIN idToSession \ {sessionId} |-> idToSession[k]],
         sessions, kernels, notebooks, allocated, FALSE, "ok", "none", <<>>)

HandleUserDisconnect(sessionId, connection) ==
  Effect(idToSession, sessions, kernels, notebooks, allocated,
         FALSE, "ok", "none", <<>>)

\* -------------------------------------------------------- message pipeline
Messages == 0..MaxMessage

\* The processors a chain is configured from. Each is a pure function of
\* (message, session) that returns a message, returns null, or throws.
\*   addKernel    returns message + session.kernel (wrapping; null counts 0)
\*   dropOdd      returns null for an odd message (filters it)
\*   rejectEmpty  throws for a falsy message (0 or null)
Processors == {"addKernel", "dropOdd", "rejectEmpty"}

Chains == UNION {[1..n -> Processors] : n \in 0..MaxChainLen}

Returned(value) == [threw |-> FALSE, value |-> value]
Threw == [threw |-> TRUE, value |-> Null]

ProcessorResult(p, message, session) ==
  LET n == IF message = Null THEN 0 ELSE message
  IN CASE p = "addKernel" ->
            Returned((n + session.kernel) % (MaxMessage + 1))
       [] p = "dropOdd" ->
            Returned(IF message # Null /\ message % 2 = 1 THEN Null ELSE message)
       [] p = "rejectEmpty" ->
            IF message = Null \/ message = 0 THEN Threw ELSE Returned(message)

\* this._messageProcessors[i] (TLA+ sequences start at 1)
ProcessorAtReversed(i) == messageProcessors[Len(messageProcessors) + 1 - i]

ProcessorAtRotated(i) == messageProcessors[(i % Len(messageProcessors)) + 1]

ProcessorAt(i) == messageProcessors[i]

\* Lines 92-96: the loop is left early when the processor returned null.
\* (A processor that throws leaves the whole handler: nothing catches it.)
BreaksNever(processedMessage) == FALSE

Breaks(processedMessage) == processedMessage = Null

\* Nothing in _handleMessage catches what a processor throws.
PropagatesNever(result) == FALSE

Propagates(result) == result.threw

\* Line 101: the callback runs when the processed message is not null.
DeliversAlways(processedMessage) == TRUE

DeliversNever(processedMessage) == FALSE

Delivers(processedMessage) == processedMessage # Null

\* Lines 89-97: the for loop from index i on. The run records which
\* processors were invoked, what each returned, whether one threw, and the
\* value of processedMessage when the loop was left.
RECURSIVE ProcessFrom(_, _, _, _)
ProcessFrom(i, processedMessage, session, run) ==
  IF i > Len(messageProcessors)
  THEN [run EXCEPT !.processedMessage = processedMessage]
  ELSE LET result == ProcessorResult(ProcessorAt(i), processedMessage, session)
           invoked == Append(run.invoked, i)
       IN IF Propagates(result)
          THEN [run EXCEPT !.invoked = invoked, !.raised = TRUE,
                           !.processedMessage = processedMessage]
          ELSE IF Breaks(result.value)
          THEN [run EXCEPT !.invoked = invoked,
                           !.returned = Append(run.returned, result.value),
                           !.processedMessage = result.value]
          ELSE ProcessFrom(i + 1, result.value, session,
                           [run EXCEPT !.invoked = invoked,
                              !.returned = Append(run.returned, result.value)])

\* _handleMessage(message, session, callback): .delivered lists the
\* arguments of the callback's invocations, in order.
HandleMessage(message, session) ==
  LET run == ProcessFrom(1, message, session,
                 [invoked |-> <<>>, returned |-> <<>>, raised |-> FALSE,
                  processedMessage |-> message])
  IN [invoked |-> run.invoked, returned |-> run.returned,
      raised |-> run.raised,
      delivered |-> IF ~run.raised /\ Delivers(run.processedMessage)
                    THEN <<run.processedMessage>> ELSE <<>>]

\* ------------------------------------- MessagePipeline: default document
Uuids == 1..NumUuids    \* what uuid.v4() can return

\* No notebook has been constructed yet. .op names the call that produced
\* the notebook and .ids lists what uuid.v4() returned during that call.
NoDocument ==
  [op |-> "none", ids |-> <<>>, id |-> NoRef, cells |-> <<>>, worksheet |-> <<>>]

MarkdownCell(id) ==
  [id |-> id, type |-> "markdown",
   source |-> "# DataLab has Markdown support", active |-> TRUE]

CodeCell(id) == [id |-> id, type |-> "code", source |-> ""]

\* if (!notebook.cells[id]): no cell is stored under id yet.
CellAbsentAlways(notebook, id) == TRUE

CellAbsent(notebook, id) == id \notin DOMAIN notebook.cells

\* notebook.cells[id] = cell; notebook.worksheet.push(id)
InsertCellFirst(notebook, id, cell) ==
  [notebook EXCEPT !.cells = Store(notebook.cells, id, cell),
                   !.worksheet = <<id>> \o notebook.worksheet]

InsertCell(notebook, id, cell) ==
  [notebook EXCEPT !.cells = Store(notebook.cells, id, cell),
                   !.worksheet = Append(notebook.worksheet, id)]

\* _appendMarkdownCell(notebook), with id what uuid.v4() returns
AppendMarkdownCell(notebook, id) ==
  IF CellAbsent(notebook, id)
  THEN InsertCell(notebook, id, MarkdownCell(id))
  ELSE notebook

\* _appendCodeCell(notebook), with id what uuid.v4() returns
AppendCodeCell(notebook, id) ==
  IF CellAbsent(notebook, id)
  THEN InsertCell(notebook, id, CodeCell(id))
  ELSE notebook

\* _createBlankNotebook(), with the three values uuid.v4() returns, in the
\* order of the calls: the notebook's id, the markdown cell's, the code
\* cell's.
CreateBlankNotebook(notebookId, markdownId, codeId) ==
  LET notebook == [id |-> notebookId, cells |-> <<>>, worksheet |-> <<>>]
  IN AppendCodeCell(AppendMarkdownCell(notebook, markdownId), codeId)

\* The notebook part of the document variable.
Notebook(doc) == [id |-> doc.id, cells |-> doc.cells, worksheet |-> doc.worksheet]

Produced(op, ids, notebook) ==
  [op |-> op, ids |-> ids, id |-> notebook.id, cells |-> notebook.cells,
   worksheet |-> notebook.worksheet]

\* ------------------------------------------ MessagePipeline: the handlers
\* The state of a MessagePipeline instance: its registry, the objects it
\* created, the ports taken in its process, and what its last handler run
\* did. bindingsAlike says that the document binding has so far succeeded
\* or failed in this instance exactly when it did in the SessionManager.
NoPipelineObservation ==
  [op |-> "none", branch |-> "none", outcome |-> "ok", raised |-> FALSE,
   ports |-> <<>>, delivered |-> <<>>]

NoPipeline ==
  [idToSession |-> <<>>, sessions |-> <<>>, kernels |-> <<>>,
   notebooks |-> <<>>, allocated |-> {}, last |-> NoPipelineObservation,
   bindingsAlike |-> TRUE]

\* The identifiers uuid.v4() returns while a Session's blank notebook is
\* built: three distinct ones (what a repeated identifier does to the
\* notebook is the subject of SpecDocument).
BlankNotebookIds == {<<1, 2, 3>>}

\* MessagePipeline._createSession(sessionId, connection): the kernel is
\* created from two fresh ports, then the blank notebook is built, then the
\* Session. fault "notebook" is the ActiveNotebook constructor raising at
\* the end of _createBlankNotebook. Nothing is caught.
PipelineCreateSession(sessionId, connection, iopubPort, shellPort, fault, ids) ==
  LET kernel == [iopubPort |-> iopubPort, shellPort |-> shellPort,
                 owner |-> sessionId]
      notebook == CreateBlankNotebook(ids[1], ids[2], ids[3])
      session == [id |-> sessionId, userconn |-> connection,
                  kernel |-> Len(pipeline.kernels) + 1,
                  notebook |-> Len(pipeline.notebooks) + 1]
      failed == [pipeline EXCEPT
                   !.last = [NoPipelineObservation EXCEPT
                               !.op = "connect", !.branch = "create",
                               !.raised = TRUE, !.outcome = "portFail"]]
  IN IF iopubPort = NoRef
     THEN [instance |-> failed, session |-> NoRef]
     ELSE IF shellPort = NoRef
     THEN [instance |->
             [failed EXCEPT !.allocated = @ \cup {iopubPort},
                            !.last.ports = <<iopubPort>>],
           session |-> NoRef]
     ELSE IF fault = "kernel"
     THEN [instance |->
             [failed EXCEPT !.allocated = @ \cup {iopubPort, shellPort},
                            !.last.ports = <<iopubPort, shellPort>>,
                            !.last.outcome = "kernelFail"],
           session |-> NoRef]
     ELSE IF fault = "notebook"
     THEN [instance |->
             [failed EXCEPT !.allocated = @ \cup {iopubPort, shellPort},
                            !.kernels = Append(@, kernel),
                            !.last.ports = <<iopubPort, shellPort>>,
                            !.last.outcome = "notebookFail"],
           session |-> NoRef]
     ELSE [instance |->
             [pipeline EXCEPT
                !.allocated = @ \cup {iopubPort, shellPort},
                !.kernels = Append(@, kernel),
                !.notebooks = Append(@, notebook),
                !.sessions = Append(@, session),
                !.last = [NoPipelineObservation EXCEPT
                            !.op = "connect", !.branch = "create",
                            !.ports = <<iopubPort, shellPort>>]],
           session |-> Len(pipeline.sessions) + 1]

\* MessagePipeline._handleUserConnect(connection)
PipelineHandleUserConnect(sessionId, connection, iopubPort, shellPort, fault, ids) ==
  LET session == Lookup(pipeline.idToSession, sessionId)
      c == PipelineCreateSession(sessionId, connection, iopubPort, shellPort,
                                 fault, ids)
  IN IF session = NoRef
     THEN IF c.session = NoRef
          THEN c.instance
          ELSE [c.instance EXCEPT
                  !.idToSession = Store(@, sessionId, c.session)]
     ELSE [pipeline EXCEPT
             !.sessions = updateUserConnection(@, session, connection),
             !.last = [NoPipelineObservation EXCEPT
                         !.op = "connect", !.branch = "update"]]

\* MessagePipeline._handleUserDisconnect(connection): a TODO comment only.
PipelineHandleUserDisconnect(sessionId, connection) ==
  [pipeline EXCEPT !.last = [NoPipelineObservation EXCEPT !.op = "disconnect"]]

\* MessagePipeline._handleMessage: the for loop from index i on; the result
\* is the value of processedMessage when the loop is left, or that a
\* processor threw.
RECURSIVE PipelineProcessFrom(_, _, _)
PipelineProcessFrom(i, processedMessage, session) ==
  IF i > Len(messageProcessors)
  THEN Returned(processedMessage)
  ELSE LET result == ProcessorResult(messageProcessors[i], processedMessage,
                                     session)
       IN IF result.threw \/ result.value = Null
          THEN result
          ELSE PipelineProcessFrom(i + 1, result.value, session)

\* MessagePipeline._handleMessage(message, session, callback)
PipelineHandleMessage(message, session) ==
  LET run == PipelineProcessFrom(1, message, session)
  IN [pipeline EXCEPT
        !.last = [NoPipelineObservation EXCEPT
                    !.op = "message", !.raised = run.threw,
                    !.delivered = IF ~run.threw /\ run.value # Null
                                  THEN <<run.value>> ELSE <<>>]]

\* ------------------------------------------------------- message sources
\* A Session receives messages from two sources, its kernel and its user
\* connection. Each source delivers in the order it sent; what has arrived
\* and has not been handed to _handleMessage yet waits in inbound.
Sources == {"kernel", "connection"}

NothingInbound == [k \in Keys |-> [source \in Sources |-> <<>>]]

Queued ==
  Len(inbound["abc"]["kernel"]) + Len(inbound["abc"]["connection"])
  + Len(inbound["xyz"]["kernel"]) + Len(inbound["xyz"]["connection"])

\* ------------------------------------------------------------------ actions
UnchangedManager ==
  UNCHANGED <<messageProcessors, idToSession, sessions, kernels, notebooks,
              allocated, connections, last, inbound, pipeline>>

\* _createBlankNotebook() runs; uuid.v4() returns the three identifiers.
OnCreateBlankNotebook(notebookId, markdownId, codeId) ==
  /\ document' = Produced("createBlankNotebook",
                          <<notebookId, markdownId, codeId>>,
                          CreateBlankNotebook(notebookId, markdownId, codeId))
  /\ UnchangedManager

\* _appendMarkdownCell(notebook) runs again on the constructed notebook.
OnAppendMarkdownCell(id) ==
  /\ document.op # "none"
  /\ document' = Produced("appendMarkdownCell", <<id>>,
                          AppendMarkdownCell(Notebook(document), id))
  /\ UnchangedManager

\* _appendCodeCell(notebook) runs again on the constructed notebook.
OnAppendCodeCell(id) ==
  /\ document.op # "none"
  /\ document' = Produced("appendCodeCell", <<id>>,
                          AppendCodeCell(Notebook(document), id))
  /\ UnchangedManager

\* The Session registered under key hands a message (from its kernel or
\* from its connection) to _handleMessage, which runs to completion.
Message(key, message) ==
  /\ key \in DOMAIN idToSession
  /\ LET session == idToSession[key]
         h == HandleMessage(message, sessions[session])
     IN last' = [NoObservation EXCEPT !.op = "message", !.key = key,
                   !.session = session, !.message = message,
                   !.invoked = h.invoked, !.returned = h.returned,
                   !.raised = h.raised, !.delivered = h.delivered,
                   !.target = IF h.delivered = <<>> THEN NoRef
                              ELSE DeliveryTarget(sessions[session])]
  /\ UNCHANGED <<messageProcessors, idToSession, sessions, kernels,
                 notebooks, allocated, connections, document, inbound>>

OnMessage(key, message) == Message(key, message) /\ UNCHANGED pipeline

\* A message arrives for the Session registered under key, from source.
Arrive(key, source, message) ==
  /\ key \in DOMAIN idToSession
  /\ Queued < MaxQueued
  /\ inbound' = [inbound EXCEPT ![key][source] = Append(@, message)]
  /\ UNCHANGED <<messageProcessors, idToSession, sessions, kernels,
                 notebooks, allocated, connections, last, document,
                 pipeline>>

\* The Session registered under key takes the oldest waiting message of
\* source and hands it to _handleMessage, which runs to completion.
Relay(key, source) ==
  /\ key \in DOMAIN idToSession
  /\ inbound[key][source] # <<>>
  /\ LET session == idToSession[key]
         message == Head(inbound[key][source])
         h == HandleMessage(message, sessions[session])
     IN last' = [NoObservation EXCEPT !.op = "message", !.key = key,
                   !.session = session, !.message = message,
                   !.invoked = h.invoked, !.returned = h.returned,
                   !.raised = h.raised, !.delivered = h.delivered,
                   !.target = IF h.delivered = <<>> THEN NoRef
                              ELSE DeliveryTarget(sessions[session])]
  /\ inbound' = [inbound EXCEPT ![key][source] = Tail(@)]
  /\ UNCHANGED <<messageProcessors, idToSession, sessions, kernels,
                 notebooks, allocated, connections, document, pipeline>>

Faults == {"none", "kernel", "notebook"}

\* The connection manager opens a connection carrying key and emits the
\* connect event: _handleUserConnect runs to completion.
Connect(key, iopubPort, shellPort, fault) ==
  /\ Len(connections) < MaxConnections
  /\ LET connection == Len(connections) + 1
         e == HandleUserConnect(key, connection, iopubPort, shellPort, fault)
     IN /\ idToSession' = e.idToSession
        /\ sessions' = e.sessions
        /\ kernels' = e.kernels
        /\ notebooks' = e.notebooks
        /\ allocated' = e.allocated
        /\ connections' = Append(connections,
               [key |-> key, state |-> "open",
                result |-> IF e.raised THEN "raised" ELSE "ok"])
        /\ last' = [NoObservation EXCEPT !.op = "connect", !.key = key,
                      !.conn = connection,
                      !.session = Lookup(e.idToSession, key),
                      !.branch = e.branch, !.outcome = e.outcome,
                      !.raised = e.raised, !.ports = e.ports]
  /\ UNCHANGED <<messageProcessors, document, inbound>>

OnConnect(key, iopubPort, shellPort, fault) ==
  Connect(key, iopubPort, shellPort, fault) /\ UNCHANGED pipeline

\* The connection manager emits the disconnect event of an open connection:
\* _handleUserDisconnect runs to completion.
Disconnect(connection) ==
  /\ connection \in DOMAIN connections
  /\ connections[connection].state = "open"
  /\ LET key == getSessionId(connection)
         e == HandleUserDisconnect(key, connection)
     IN /\ idToSession' = e.idToSession
        /\ sessions' = e.sessions
        /\ kernels' = e.kernels
        /\ notebooks' = e.notebooks
        /\ allocated' = e.allocated
        /\ connections' = [connections EXCEPT ![connection].state = "closed"]
        /\ last' = [NoObservation EXCEPT !.op = "disconnect", !.key = key,
                      !.conn = connection,
                      !.session = Lookup(e.idToSession, key),
                      !.raised = e.raised]
  /\ UNCHANGED <<messageProcessors, document, inbound>>

OnDisconnect(connection) == Disconnect(connection) /\ UNCHANGED pipeline

\* Both implementations receive the same connect event. The kernel manager
\* answers both alike; the document bindings are different code and raise
\* independently of each other. The two are driven side by side up to the
\* first connect event at which their document bindings fare differently.
PairConnect(key, fault, pipelineFault, ids) ==
  /\ pipeline.bindingsAlike
  /\ (fault = "kernel") = (pipelineFault = "kernel")
  /\ LET iopubPort == getAvailablePort(allocated)
         shellPort == IF iopubPort = NoRef THEN NoRef
                      ELSE getAvailablePort(allocated \cup {iopubPort})
         pipelineIopubPort == getAvailablePort(pipeline.allocated)
         pipelineShellPort ==
           IF pipelineIopubPort = NoRef THEN NoRef
           ELSE getAvailablePort(pipeline.allocated \cup {pipelineIopubPort})
         after == PipelineHandleUserConnect(key, Len(connections) + 1,
                    pipelineIopubPort, pipelineShellPort, pipelineFault, ids)
     IN /\ Connect(key, iopubPort, shellPort, fault)
        /\ pipeline' =
             [after EXCEPT
                !.bindingsAlike =
                   @ /\ ((last'.outcome = "notebookFail")
                           = (after.last.outcome = "notebookFail"))]

\* Both implementations receive the same disconnect event.
PairDisconnect(connection) ==
  /\ pipeline.bindingsAlike
  /\ Disconnect(connection)
  /\ pipeline' = PipelineHandleUserDisconnect(getSessionId(connection),
                                              connection)

\* The Sessions registered under key in both implementations hand the same
\* message to their _handleMessage.
PairMessage(key, message) ==
  /\ pipeline.bindingsAlike
  /\ key \in DOMAIN pipeline.idToSession
  /\ Message(key, message)
  /\ pipeline' = PipelineHandleMessage(message,
                   pipeline.sessions[pipeline.idToSession[key]])

Init ==
  /\ messageProcessors \in Chains
  /\ idToSession = <<>>
  /\ sessions = <<>>
  /\ kernels = <<>>
  /\ notebooks = <<>>
  /\ allocated = {}
  /\ connections = <<>>
  /\ last = NoObservation
  /\ document = NoDocument
  /\ inbound = NothingInbound
  /\ pipeline = NoPipeline

Next ==
  \/ \E key \in Keys, fault \in Faults :
       LET iopubPort == getAvailablePort(allocated)
           shellPort == IF iopubPort = NoRef THEN NoRef
                        ELSE getAvailablePort(allocated \cup {iopubPort})
       IN OnConnect(key, iopubPort, shellPort, fault)
  \/ \E key \in DOMAIN idToSession, message \in Messages \cup {Null} :
       OnMessage(key, message)
  \/ \E connection \in DOMAIN connections : OnDisconnect(connection)

Spec == Init /\ [][Next]_vars

\* Default-document construction on its own: the identifiers uuid.v4()
\* returns are the inputs.
InitDocument ==
  /\ messageProcessors = <<>>
  /\ idToSession = <<>>
  /\ sessions = <<>>
  /\ kernels = <<>>
  /\ notebooks = <<>>
  /\ allocated = {}
  /\ connections = <<>>
  /\ last = NoObservation
  /\ document = NoDocument
  /\ inbound = NothingInbound
  /\ pipeline = NoPipeline

NextDocument ==
  \/ \E notebookId \in Uuids, markdownId \in Uuids, codeId \in Uuids :
       OnCreateBlankNotebook(notebookId, markdownId, codeId)
  \/ \E id \in Uuids : OnAppendMarkdownCell(id)
  \/ \E id \in Uuids : OnAppendCodeCell(id)

SpecDocument == InitDocument /\ [][NextDocument]_vars

\* The session manager with the messages of each source waiting in arrival
\* order until the Session hands them on.
NextRelay ==
  \/ \E key \in Keys \ DOMAIN idToSession :
       LET iopubPort == getAvailablePort(allocated)
           shellPort == IF iopubPort = NoRef THEN NoRef
                        ELSE getAvailablePort(allocated \cup {iopubPort})
       IN OnConnect(key, iopubPort, shellPort, "none")
  \/ \E key \in Keys, source \in Sources, message \in Messages :
       Arrive(key, source, message)
  \/ \E key \in Keys, source \in Sources : Relay(key, source)

SpecRelay == Init /\ [][NextRelay]_vars

\* A SessionManager and a MessagePipeline configured with the same chain
\* and driven by the same events.
NextPair ==
  \/ \E key \in Keys, fault \in Faults, pipelineFault \in Faults,
        ids \in BlankNotebookIds :
       PairConnect(key, fault, pipelineFault, ids)
  \/ \E key \in DOMAIN idToSession, message \in Messages \cup {Null} :
       PairMessage(key, message)
  \/ \E connection \in DOMAIN connections : PairDisconnect(connection)

SpecPair == Init /\ [][NextPair]_vars


\* ------------------------------------------------------ reading the state
\* The connect events for key k whose handler returned / raised an error.
Delivered(k) ==
  {c \in DOMAIN connections :
     connections[c].key = k /\ connections[c].result = "ok"}

FailedConnects(k) ==
  {c \in DOMAIN connections :
     connections[c].key = k /\ connections[c].result = "raised"}

\* The Session objects ever constructed for key k, and the kernels the
\* kernel manager created while a connect event for k was handled.
SessionsOf(k) == {i \in DOMAIN sessions : sessions[i].id = k}

KernelsFor(k) == {h \in DOMAIN kernels : kernels[h].owner = k}

\* This step is a connect event (a connection is opened in it); its key.
ConnectStep == Len(connections') = Len(connections) + 1

StepKey == connections'[Len(connections')].key

\* This step is the disconnect event of connection c.
DisconnectStep(c) ==
  /\ c \in DOMAIN connections
  /\ Len(connections') = Len(connections)
  /\ connections[c].state = "open"
  /\ connections'[c].state = "closed"

\* This step is a run of _handleMessage.
MessageStep == last'.op = "message" /\ last' # last

\* Session object i keeps its identity, kernel and document over the step.
KeepsBindings(i) ==
  /\ i \in DOMAIN sessions'
  /\ sessions'[i].id = sessions[i].id
  /\ sessions'[i].kernel = sessions[i].kernel
  /\ sessions'[i].notebook = sessions[i].notebook

C2_ReconnectStep ==
  (ConnectStep /\ StepKey \in DOMAIN idToSession) =>
    LET session == idToSession[StepKey]
    IN /\ idToSession' = idToSession
       /\ kernels' = kernels
       /\ notebooks' = notebooks
       /\ allocated' = allocated
       /\ last'.ports = <<>>
       /\ ~last'.raised
       /\ sessions' = [sessions EXCEPT
                         ![session].userconn = Len(connections')]

C2_ReconnectOnlySwapsConnection == [][C2_ReconnectStep]_vars

\* The last event was a connect for a key registered by an earlier connect,
\* and the Session now refers to the new connection.
C2_Witness ==
  /\ last.op = "connect"
  /\ last.session # NoRef
  /\ sessions[last.session].userconn = last.conn
  /\ \E c \in Delivered(last.key) : c < last.conn

\* ------------------------------------------------------------------ C5
\* C5: a disconnect event leaves the registry, every Session object, the
\* kernels and the notebooks exactly as they were; and a connect event for
\* a registered key leaves the key mapped to the same Session object with
\* the same kernel and the same document. So after connect(k), disconnect,
\* connect(k) the registry maps k to what the first connect registered.
C5_Step ==
  /\ \A c \in DOMAIN connections :
       DisconnectStep(c) =>
         /\ idToSession' = idToSession
         /\ sessions' = sessions
         /\ kernels' = kernels
         /\ notebooks' = notebooks
  /\ ConnectStep =>
       \A k \in DOMAIN idToSession :
         /\ k \in DOMAIN idToSession'
         /\ idToSession'[k] = idToSession[k]
         /\ KeepsBindings(idToSession[k])
         /\ \A h \in DOMAIN kernels : h \in DOMAIN kernels' /\ kernels'[h] = kernels[h]
         /\ \A d \in DOMAIN notebooks :
              d \in DOMAIN notebooks' /\ notebooks'[d] = notebooks[d]

C5_DisconnectKeepsBindings == [][C5_Step]_vars

\* connect(k), disconnect, connect(k): the last event was a connect for k,
\* an earlier connection of k had connected and has been disconnected, and
\* k's Session refers to the new connection.
C5_Witness ==
  /\ last.op = "connect"
  /\ last.session # NoRef
  /\ sessions[last.session].userconn = last.conn
  /\ \E c \in Delivered(last.key) :
       c < last.conn /\ connections[c].state = "closed"

\* ------------------------------------------------------------------ C6
\* C6: when port allocation, kernel creation or notebook construction
\* fails while a connect event is handled, the error leaves the handler,
\* the registry and the Session heap are as before the event and the key
\* has no entry; and every connect event for a key without an entry takes
\* the creation path, so the next connect for that key is a first connect
\* again.
C6_Step ==
  ConnectStep =>
    /\ last'.outcome # "ok" =>
         /\ last'.raised
         /\ connections'[Len(connections')].result = "raised"
         /\ idToSession' = idToSession
         /\ sessions' = sessions
         /\ StepKey \notin DOMAIN idToSession'
    /\ StepKey \notin DOMAIN idToSession => last'.branch = "create"

C6_FailureRegistersNothing == [][C6_Step]_vars

\* A connect for a key created its Session after an earlier connect for the
\* same key had failed.
C6_Witness ==
  /\ last.op = "connect"
  /\ last.branch = "create"
  /\ last.outcome = "ok"
  /\ last.key \in DOMAIN idToSession
  /\ \E c \in FailedConnects(last.key) : c < last.conn

\* ------------------------------------------------------------------ C9
\* C9: with an allocator that never returns a port that is still
\* allocated, any two kernels differ in their shell port and in their iopub
\* port (indeed no port is used twice at all), and a connect event that
\* creates a Session asks the allocator for exactly two ports, which are
\* the new kernel's iopub and shell port.
KernelPorts == UNION {{kernels[h].iopubPort, kernels[h].shellPort} : h \in DOMAIN kernels}

C9_FreshPortsPerKernel ==
  /\ \A g \in DOMAIN kernels, h \in DOMAIN kernels :
       g # h => /\ kernels[g].shellPort # kernels[h].shellPort
                /\ kernels[g].iopubPort # kernels[h].iopubPort
  /\ Cardinality(KernelPorts) = 2 * Len(kernels)
  /\ KernelPorts \subseteq allocated
  /\ (last.op = "connect" /\ last.branch = "create" /\ last.outcome = "ok") =>
       /\ Len(last.ports) = 2
       /\ kernels[sessions[last.session].kernel].iopubPort = last.ports[1]
       /\ kernels[sessions[last.session].kernel].shellPort = last.ports[2]

\* Two Sessions were created back-to-back on distinct keys.
C9_Witness ==
  /\ Cardinality(DOMAIN idToSession) = 2
  /\ last.op = "connect" /\ last.branch = "create" /\ last.outcome = "ok"
  /\ Len(connections) = 2

\* ------------------------------------------------------------------ C10
\* C10: a disconnect event for the connection a Session currently refers to
\* moves the Session to DETACHED: its connection reference is cleared.
SessionState(i) ==
  IF sessions[i].userconn = NoRef THEN "DETACHED" ELSE "ATTACHED"

C10_DisconnectDetachesStep ==
  \A c \in DOMAIN connections :
    (/\ DisconnectStep(c)
     /\ connections[c].key \in DOMAIN idToSession
     /\ sessions[idToSession[connections[c].key]].userconn = c)
    => sessions'[idToSession[connections[c].key]].userconn = NoRef

C10_DisconnectDetaches == [][C10_DisconnectDetachesStep]_vars

\* ----------------------------------------------- reading a message run
\* The session context the last _handleMessage run was given.
LastContext == sessions[last.session]

\* p_n(...p_2(p_1(message, s), s)..., s): the first n configured processors
\* composed in configured order, each applied to what the one before
\* returned. A processor that throws ends the composition.
RECURSIVE Composed(_, _, _)
Composed(n, message, session) ==
  IF n = 0 THEN Returned(message)
  ELSE LET before == Composed(n - 1, message, session)
       IN IF before.threw THEN before
          ELSE ProcessorResult(messageProcessors[n], before.value, session)

\* No processor of the chain throws or returns the sentinel for message.
NoneFilters(message, session) ==
  \A n \in 1..Len(messageProcessors) :
    /\ ~Composed(n, message, session).threw
    /\ Composed(n, message, session).value # Null

\* What the i-th invoked processor of the last run was given.
GivenTo(i) == IF i = 1 THEN last.message ELSE last.returned[i - 1]

\* The i-th invocation of the last run threw.
ThrewAt(i) ==
  /\ i \in DOMAIN last.invoked
  /\ ProcessorResult(messageProcessors[last.invoked[i]], GivenTo(i),
                     LastContext).threw

FirstN(n) == [i \in 1..n |-> i]

C4_FilterIsFirmVeto ==
  last.op = "message" =>
    \A i \in DOMAIN last.returned :
      last.returned[i] = Null =>
        /\ last.invoked = FirstN(i)
        /\ last.delivered = <<>>

\* A processor that is not the last of its chain filtered the message.
C4_Witness ==
  /\ last.op = "message"
  /\ \E i \in DOMAIN last.returned : last.returned[i] = Null
  /\ Len(last.invoked) < Len(messageProcessors)

\* ------------------------------------------------------------------ C7
\* C7: when a processor throws, it is the last processor invoked for that
\* message, the callback is not invoked and the error leaves
\* _handleMessage; and no run of _handleMessage, failing or not, changes
\* the registry, the Session objects or the chain, so the next message
\* meets the full chain.
C7_Step ==
  MessageStep =>
    /\ idToSession' = idToSession
    /\ sessions' = sessions
    /\ messageProcessors' = messageProcessors
    /\ \A i \in DOMAIN last'.invoked :
         ProcessorResult(messageProcessors[last'.invoked[i]],
                         IF i = 1 THEN last'.message ELSE last'.returned[i - 1],
                         sessions[last'.session]).threw
         => /\ last'.raised
            /\ Len(last'.invoked) = i
            /\ last'.delivered = <<>>

C7_ThrowAbortsAndIsolated == [][C7_Step]_vars

\* A processor that is not the last of its chain threw.
C7_Witness ==
  /\ last.op = "message"
  /\ \E i \in DOMAIN last.invoked : ThrewAt(i)
  /\ last.raised
  /\ Len(last.invoked) < Len(messageProcessors)

\* ------------------------------------------------------------------ C8
\* C8 as stated: for every pair of cell identifiers the ID generator can
\* return, _createBlankNotebook yields a worksheet of exactly two
\* identifiers, the first of a markdown cell, the second of a code cell,
\* and a cells map with exactly those two identifiers.
WorksheetIsMarkdownThenCode ==
  /\ Len(document.worksheet) = 2
  /\ document.worksheet = <<document.ids[2], document.ids[3]>>
  /\ DOMAIN document.cells = {document.ids[2], document.ids[3]}
  /\ document.cells[document.worksheet[1]].type = "markdown"
  /\ document.cells[document.worksheet[2]].type = "code"
  /\ \A id \in DOMAIN document.cells : document.cells[id].id = id

AppendStep ==
  /\ document' # document
  /\ document'.op \in {"appendMarkdownCell", "appendCodeCell"}

C11_Step ==
  (AppendStep /\ document'.ids[1] \in DOMAIN document.cells) =>
    /\ document'.cells = document.cells
    /\ document'.worksheet = document.worksheet
    /\ document'.id = document.id

C11_InsertIsIdempotent == [][C11_Step]_vars

\* _appendCodeCell ran on a notebook with an identifier that names the
\* notebook's markdown cell: the cell is still the markdown cell, and the
\* worksheet is as _createBlankNotebook left it.
C11_Witness ==
  /\ document.op = "appendCodeCell"
  /\ document.ids[1] \in DOMAIN document.cells
  /\ document.cells[document.ids[1]].type = "markdown"
  /\ Len(document.worksheet) = 2

C14_UnknownKeyFailsLoudly ==
  (last.op = "disconnect" /\ last.key \notin DOMAIN idToSession) =>
    last.raised

\* ------------------------------------------------------------------ C15
\* C15: no step changes the chain; and a run of _handleMessage, for
\* whichever session and message, invokes the configured processors from
\* the first on, in configured order, the i-th invocation being the i-th
\* configured processor applied to what the one before returned, and
\* changes neither the registry nor the Session objects.
C15_Step ==
  /\ messageProcessors' = messageProcessors
  /\ MessageStep =>
       /\ idToSession' = idToSession
       /\ sessions' = sessions
       /\ Len(last'.invoked) <= Len(messageProcessors)
       /\ last'.invoked = FirstN(Len(last'.invoked))
       /\ \A i \in DOMAIN last'.returned :
            last'.returned[i] =
              ProcessorResult(messageProcessors[i],
                              IF i = 1 THEN last'.message
                              ELSE last'.returned[i - 1],
                              sessions[last'.session]).value

C15_ChainFixedForAllSessions == [][C15_Step]_vars

\* A chain of two processors or more ran to its end for the Session that
\* was created second.
C15_Witness ==
  /\ last.op = "message"
  /\ Len(messageProcessors) >= 2
  /\ Len(last.returned) = Len(messageProcessors)
  /\ last.session >= 2

\* ------------------------------------------------------------------ C16
\* C16: as long as no connect event has raised an error, the kernels
\* created, the keys in the registry and the distinct keys that have
\* connected are equally many, every registered Session has a kernel of its
\* own, and every kernel created is the kernel of a registered Session.
NoBindingFailed ==
  \A c \in DOMAIN connections : connections[c].result = "ok"

ConnectedKeys == {connections[c].key : c \in DOMAIN connections}

KernelOf(k) == sessions[idToSession[k]].kernel

C16_KernelsMatchRegistry ==
  NoBindingFailed =>
    /\ Len(kernels) = Cardinality(DOMAIN idToSession)
    /\ DOMAIN idToSession = ConnectedKeys
    /\ \A k \in DOMAIN idToSession : KernelOf(k) \in DOMAIN kernels
    /\ \A j \in DOMAIN idToSession, k \in DOMAIN idToSession :
         j # k => KernelOf(j) # KernelOf(k)
    /\ \A h \in DOMAIN kernels : \E k \in DOMAIN idToSession : KernelOf(k) = h

\* Both keys connected, one of them twice, one connection has been
\* disconnected, and no binding failed.
C16_Witness ==
  /\ NoBindingFailed
  /\ Len(connections) >= 3
  /\ ConnectedKeys = Keys
  /\ \E c \in DOMAIN connections : connections[c].state = "closed"

\* ------------------------------------------------------------------ C17
\* C17: every registry entry maps its key to a Session object whose session
\* id is that key, and no step (connect, disconnect or message) removes an
\* entry or maps its key to another Session object.
C17_Step ==
  /\ \A k \in DOMAIN idToSession :
       /\ k \in DOMAIN idToSession'
       /\ idToSession'[k] = idToSession[k]
  /\ \A k \in DOMAIN idToSession' :
       /\ idToSession'[k] \in DOMAIN sessions'
       /\ sessions'[idToSession'[k]].id = k

C17_RegistryOnlyGrows == [][C17_Step]_vars

\* Both keys are registered, a connection has been disconnected and a
\* message has just been handled.
C17_Witness ==
  /\ DOMAIN idToSession = Keys
  /\ \E c \in DOMAIN connections : connections[c].state = "closed"
  /\ last.op = "message"

\* ------------------------------------------------------------------ C13
\* C13: a run of _handleMessage is not interrupted by connect or
\* disconnect events, whatever their order around it: a message that no
\* processor filters (or throws on) is delivered, no message is delivered
\* twice, and a delivery goes through the connection of the latest connect
\* event of the Session's key, never through one that a later connect has
\* replaced.
LatestConnection(k) ==
  CHOOSE c \in Delivered(k) : \A d \in Delivered(k) : d <= c

C13_InFlightSurvivesSwap ==
  last.op = "message" =>
    /\ Len(last.delivered) <= 1
    /\ (/\ NoneFilters(last.message, LastContext)
        /\ ~(messageProcessors = <<>> /\ last.message = Null))
         => Len(last.delivered) = 1
    /\ Len(last.delivered) = 1 => last.target = LatestConnection(last.key)

\* A message was delivered for a key that has connected twice and whose
\* first connection has been disconnected.
C13_Witness ==
  /\ last.op = "message"
  /\ Len(last.delivered) = 1
  /\ Cardinality(Delivered(last.key)) >= 2
  /\ \E c \in Delivered(last.key) :
       c < last.target /\ connections[c].state = "closed"


\* ------------------------------------------------------------------ C12
\* What waits from source for the Session registered under key.
Waiting(key, source) == inbound[key][source]

\* The step handed the oldest waiting message of (key, source) to the chain
\* and the run finished inside the step: every configured processor that was
\* due ran, and the unfiltered result went to the callback.
RelayedHead(key, source) ==
  LET message == Head(Waiting(key, source))
      session == sessions'[idToSession'[key]]
  IN /\ Waiting(key, source) # <<>>
     /\ inbound'[key][source] = Tail(Waiting(key, source))
     /\ last'.op = "message"
     /\ last'.key = key
     /\ last'.message = message
     /\ last'.delivered =
          IF NoneFilters(message, session)
          THEN <<Composed(Len(messageProcessors), message, session).value>>
          ELSE <<>>

\* The step only added a message behind those waiting: no chain started.
ArrivedBehind(key, source) ==
  /\ Len(inbound'[key][source]) = Len(Waiting(key, source)) + 1
  /\ SubSeq(inbound'[key][source], 1, Len(Waiting(key, source)))
       = Waiting(key, source)
  /\ last' = last

C12_Step ==
  \A key \in Keys, source \in Sources :
    inbound'[key][source] # Waiting(key, source) =>
      \/ ArrivedBehind(key, source)
      \/ RelayedHead(key, source)

ManagerKernelCreate ==
  IF last.op = "connect" /\ last.branch = "create" /\ Len(last.ports) = 2
  THEN <<last.key, last.ports>> ELSE <<>>

PipelineKernelCreate ==
  IF /\ pipeline.last.op = "connect"
     /\ pipeline.last.branch = "create"
     /\ Len(pipeline.last.ports) = 2
  THEN <<last.key, pipeline.last.ports>> ELSE <<>>

\* Both instances have the same registered keys, made the same kernel-create
\* and updateUserConnection calls in their last handler run, hold the same
\* kernels (created with the same options for the same keys), every
\* registered Session refers to the same connection in both, and the
\* callback was invoked with the same arguments.
SameObservables ==
  /\ DOMAIN idToSession = DOMAIN pipeline.idToSession
  /\ ManagerKernelCreate = PipelineKernelCreate
  /\ kernels = pipeline.kernels
  /\ (last.branch = "update") = (pipeline.last.branch = "update")
  /\ \A k \in DOMAIN idToSession \cap DOMAIN pipeline.idToSession :
       sessions[idToSession[k]].userconn
         = pipeline.sessions[pipeline.idToSession[k]].userconn
  /\ last.delivered = pipeline.last.delivered
  /\ last.raised = pipeline.last.raised

====
